---- MODULE Spec2Model ----
(***************************************************************************)
(* The NutritionAnalyzer component of src/src/App.js: its React state, the *)
(* two asynchronous submission handlers (analyzeFood, handleQuickAnalysis) *)
(* and the controls that start them.  A handler runs to its first await in *)
(* one step; each continuation after an await runs to the next await or to *)
(* the end of the handler in one step (JavaScript run-to-completion).      *)
(***************************************************************************)
EXTENDS Integers, Sequences, FiniteSets, TLC

\* ------------------------------------------------------------------ bounds
MaxLen == 2            \* longest text typed into the input field
MaxSubmissions == 3    \* submissions (clicks / Enter presses) per behaviour
NumResults == 2        \* distinct well-formed analysis results of the backend
MaxScoreTenths == 1000 \* largest health score rendered, in tenths (100.0)
MaxAmountTenths == 120 \* largest nutrient amount rendered, in tenths (12.0)

\* ----------------------------------------------------------------- strings
\* A string is a sequence of one-character strings.
WhiteSpace == {" "}
TypedChars == {" ", "a", "/"}

RECURSIVE StringsUpTo(_)
StringsUpTo(n) ==
    IF n = 0 THEN {<<>>}
    ELSE LET shorter == StringsUpTo(n - 1)
         IN  shorter \cup {Append(s, c) : s \in shorter, c \in TypedChars}

Inputs == StringsUpTo(MaxLen)

\* String.prototype.trim
RECURSIVE TrimStart(_)
TrimStart(s) ==
    IF s # <<>> /\ Head(s) \in WhiteSpace THEN TrimStart(Tail(s)) ELSE s

RECURSIVE TrimEnd(_)
TrimEnd(s) ==
    IF s # <<>> /\ s[Len(s)] \in WhiteSpace
    THEN TrimEnd(SubSeq(s, 1, Len(s) - 1))
    ELSE s

Trim(s) == TrimEnd(TrimStart(s))

\* String.prototype.toLowerCase, on the letters the component uses
LowerChar(c) ==
    CASE c = "A" -> "a"
      [] c = "B" -> "b"
      [] c = "P" -> "p"
      [] c = "Q" -> "q"
      [] c = "S" -> "s"
      [] OTHER   -> c

RECURSIVE ToLowerCase(_)
ToLowerCase(s) ==
    IF s = <<>> THEN <<>>
    ELSE <<LowerChar(Head(s))>> \o ToLowerCase(Tail(s))

\* encodeURIComponent: letters are kept, every other character used here is
\* replaced by its percent escape
EscapeChar(c) ==
    CASE c = " " -> <<"%", "2", "0">>
      [] c = "/" -> <<"%", "2", "F">>
      [] c = "%" -> <<"%", "2", "5">>
      [] OTHER   -> <<c>>

RECURSIVE EncodeURIComponent(_)
EncodeURIComponent(s) ==
    IF s = <<>> THEN <<>>
    ELSE EscapeChar(Head(s)) \o EncodeURIComponent(Tail(s))

\* ---------------------------------------------------------- program values
quickSuggestions ==
    { <<"B", "a", "n", "a", "n", "a">>,
      <<"A", "v", "o", "c", "a", "d", "o">>,
      <<"Q", "u", "i", "n", "o", "a">>,
      <<"S", "a", "l", "m", "o", "n">>,
      <<"S", "p", "i", "n", "a", "c", "h">>,
      <<"B", "l", "u", "e", "b", "e", "r", "r", "i", "e", "s">>,
      <<"A", "l", "m", "o", "n", "d", "s">>,
      <<"S", "w", "e", "e", "t", " ", "P", "o", "t", "a", "t", "o">> }

\* An error message: a fixed text and, for the templated message, the item
\* interpolated into it.
Message(text, item) == [text |-> text, item |-> item]
NoError == Message("", <<>>)
EnterFoodItem == Message("Please enter a food item", <<>>)
FailedToAnalyze(item) == Message("Failed to analyze ${item}. Please try again.", item)
InvalidResponse == Message("Invalid response from server", <<>>)
FailedGeneric == Message("Failed to analyze food. Please try again.", <<>>)

\* Mutant: the thrown message is dropped, the generic one is always shown.
MessageOrGeneric_AlwaysGeneric(m) == FailedGeneric

\* err.message || 'Failed to analyze food. Please try again.'
MessageOrGeneric(m) == IF m.text # "" THEN m ELSE FailedGeneric

\* A parsed response body (or the fact that it does not parse).
\*   json: "null" | "object" | "unparsable"
\*   detailed_breakdown: "absent" | "null" | "object"
\*   id: which analysis it is (0 for bodies that carry none)
\*   detail: a message the server put in the body, "" when none
Body(json, breakdown, id, detail) ==
    [json |-> json, detailed_breakdown |-> breakdown, id |-> id, detail |-> detail]
NullData == Body("null", "absent", 0, "")
Unparsable == Body("unparsable", "absent", 0, "")
ErrorBody == Body("object", "absent", 0, "Food not found")
NullBreakdown == Body("object", "null", 0, "")
Result(i) == Body("object", "object", i, "")
Results == {Result(i) : i \in 1..NumResults}
Bodies == {NullData, Unparsable, ErrorBody, NullBreakdown} \cup Results
Responses == [ok : BOOLEAN, body : Bodies]
NoResponse == [ok |-> FALSE, body |-> NullData]

\* What a rejected fetch() or response.json() carries as err.message
FetchRejections == {Message("Failed to fetch", <<>>), Message("", <<>>)}
JsonRejection == Message("Unexpected token < in JSON", <<>>)

\* Mutant: only !data is tested.
InvalidShape_OnlyNull(data) == data.json = "null"

\* Mutant: the shape of the body is not validated.
InvalidShape_Never(data) == FALSE

\* !data || !data.detailed_breakdown
InvalidShape(data) == data.json = "null" \/ data.detailed_breakdown # "object"

\* ----------------------------------------------------------------- display
\* Numbers are held in tenths: Tenths(80) is 80.0, 799 is 79.9.
Tenths(n) == n * 10

getScoreColor(score) ==
    IF score >= Tenths(80) THEN "text-green-500"
    ELSE IF score >= Tenths(60) THEN "text-yellow-500"
    ELSE IF score >= Tenths(40) THEN "text-orange-500"
    ELSE "text-red-500"

\* Mutant: the cut points are exclusive.
getScoreEmoji_Exclusive(score) ==
    IF score > Tenths(80) THEN "green circle"
    ELSE IF score > Tenths(60) THEN "yellow circle"
    ELSE IF score > Tenths(40) THEN "orange circle"
    ELSE "red circle"

getScoreEmoji(score) ==
    IF score >= Tenths(80) THEN "green circle"
    ELSE IF score >= Tenths(60) THEN "yellow circle"
    ELSE IF score >= Tenths(40) THEN "orange circle"
    ELSE "red circle"

getScoreDescription(score) ==
    IF score >= Tenths(80) THEN "Excellent Choice"
    ELSE IF score >= Tenths(60) THEN "Good Option"
    ELSE IF score >= Tenths(40) THEN "Fair Choice"
    ELSE "Consider Alternatives"

\* The class of the progress bar
ProgressBarClass(score) ==
    IF score >= Tenths(80) THEN "bg-green-500"
    ELSE IF score >= Tenths(60) THEN "bg-yellow-500"
    ELSE IF score >= Tenths(40) THEN "bg-orange-500"
    ELSE "bg-red-500"

\* The class of the status badge of a nutrient row
StatusBadgeClass(value) ==
    IF value > Tenths(10) THEN "bg-green-100 text-green-800"
    ELSE IF value > Tenths(5) THEN "bg-yellow-100 text-yellow-800"
    ELSE "bg-blue-100 text-blue-800"

\* Mutant: the thresholds are inclusive.
StatusLabel_Inclusive(value) ==
    IF value >= Tenths(10) THEN "High"
    ELSE IF value >= Tenths(5) THEN "Good"
    ELSE "Low"

\* The label of the status badge of a nutrient row
StatusLabel(value) ==
    IF value > Tenths(10) THEN "High"
    ELSE IF value > Tenths(5) THEN "Good"
    ELSE "Low"

\* What is rendered for a health score and for a nutrient amount.
ScoreCard(score) ==
    [score |-> score, color |-> getScoreColor(score), emoji |-> getScoreEmoji(score),
     description |-> getScoreDescription(score), bar |-> ProgressBarClass(score)]
NutrientRow(value) ==
    [value |-> value, badge |-> StatusBadgeClass(value), label |-> StatusLabel(value)]
NoCard == [score |-> 0, color |-> "", emoji |-> "", description |-> "", bar |-> ""]
NoRow == [value |-> 0, badge |-> "", label |-> ""]

\* display: the value handed to the next render (input), and the score card
\* and nutrient row rendered so far.
NoInput == [field |-> "none", number |-> 0]
ScoreInputs == [field : {"health_score"}, number : 0..MaxScoreTenths]
AmountInputs == [field : {"value"}, number : 0..MaxAmountTenths]
NoDisplay == [input |-> NoInput, card |-> NoCard, row |-> NoRow]

\* ------------------------------------------------------------------- state
VARIABLES
    foodItem,       \* useState(''): the text of the input field
    loading,        \* useState(false): the busy flag
    nutritionData,  \* useState(null): the displayed result, NullData for null
    error,          \* useState(''): the error message, NoError for ''
    darkMode,       \* useState(false): the theme
    tasks,          \* the handler invocations suspended at an await
    submissions,    \* how many times a submission handler was invoked
    calls,          \* how many times fetch() was called
    display         \* the score card and the nutrient row last rendered

vars == <<foodItem, loading, nutritionData, error, darkMode, tasks, submissions, calls,
         display>>

\* A request target: the literal part of the template string and the
\* interpolated, escaped item.
Url(base, item) == [base |-> base, item |-> item]

\* A suspended invocation of a submission handler.
\*   handler: "analyzeFood" | "handleQuickAnalysis"
\*   food: the text its closure interpolates into the failure message
\*   pc: "fetch" (awaiting fetch(), request in flight), "resolved" / "rejected"
\*       (fetch() has settled, the continuation is queued), "json" (awaiting
\*       response.json())
\*   url: the target handed to fetch()
\*   response: the Response fetch() resolved with
\*   err: the reason fetch() rejected with
\*   before: nutritionData as it was when the handler was invoked
Task(id, handler, food, url, before) ==
    [id |-> id, handler |-> handler, food |-> food, pc |-> "fetch",
     url |-> url, response |-> NoResponse, err |-> NoError, before |-> before]

Init ==
    /\ foodItem = <<>>
    /\ loading = FALSE
    /\ nutritionData = NullData
    /\ error = NoError
    /\ darkMode = FALSE
    /\ tasks = {}
    /\ submissions = 0
    /\ calls = 0
    /\ display = NoDisplay

\* ---------------------------------------------------------------- controls
\* Mutant: the Analyze button is not disabled while loading.
AnalyzeEnabled_Always == TRUE

\* The Analyze button and the input field (Enter key) are disabled while
\* loading; the Enter handler also tests !loading itself.
AnalyzeEnabled == ~loading

\* Mutant: the input field is not disabled while loading.
InputEnabled_Always == TRUE

\* The input field is disabled while loading.
InputEnabled == ~loading

\* Mutant: the quick-suggestion buttons are rendered whether or not a result
\* is displayed.
QuickEnabled_AlwaysRendered == ~loading

\* The quick-suggestion buttons are rendered only while there is no result,
\* and are disabled while loading.
QuickEnabled == nutritionData = NullData /\ ~loading

\* Mutant: the results section is hidden while an error is shown.
View_ErrorOnly ==
    IF error # NoError THEN <<"error">>
    ELSE IF nutritionData # NullData THEN <<"results">> ELSE <<"suggestions">>

\* The conditional sections of the page that are rendered, in document
\* order: {error && ...}, {nutritionData && ...}, {!nutritionData && ...}
View ==
    (IF error # NoError THEN <<"error">> ELSE <<>>)
    \o (IF nutritionData # NullData THEN <<"results">> ELSE <<>>)
    \o (IF nutritionData = NullData THEN <<"suggestions">> ELSE <<>>)

\* onChange of the input field
SetFoodItem(s) ==
    /\ InputEnabled
    /\ foodItem' = s
    /\ UNCHANGED <<display, loading, nutritionData, error, darkMode, tasks, submissions, calls>>

\* onClick of the theme button
ToggleDarkMode ==
    /\ darkMode' = ~darkMode
    /\ UNCHANGED <<display, foodItem, loading, nutritionData, error, tasks, submissions, calls>>

\* ---------------------------------------------------------------- handlers
\* Mutant: the input is tested without trimming it.
IsEmptyQuery_NoTrim(text) == text = <<>>

\* !foodItem.trim()
IsEmptyQuery(text) == Trim(text) = <<>>

\* Mutant: the raw input is escaped, untrimmed.
AnalyzeUrl_Raw(text) == Url("/api/analyze/", EncodeURIComponent(text))

\* The target analyzeFood builds for the text of the input field
AnalyzeUrl(text) == Url("/api/analyze/", EncodeURIComponent(Trim(text)))

\* The target handleQuickAnalysis builds for the selected food
QuickUrl(food) == Url("http://localhost:8000/api/analyze/", EncodeURIComponent(Trim(food)))

\* Mutant: the input field is not updated.
QuickText_NotShown(food) == foodItem

\* Mutant: the food is shown as listed, not lower-cased.
QuickText_AsListed(food) == food

\* The text handleQuickAnalysis puts in the input field
QuickText(food) == ToLowerCase(food)

\* Mutant: the previous error is not cleared at dispatch.
AnalyzeFood_KeepsError ==
    /\ AnalyzeEnabled
    /\ submissions < MaxSubmissions
    /\ submissions' = submissions + 1
    /\ IF IsEmptyQuery(foodItem)
       THEN /\ error' = EnterFoodItem
            /\ UNCHANGED <<display, foodItem, loading, nutritionData, darkMode, tasks, calls>>
       ELSE /\ loading' = TRUE
            /\ tasks' = tasks \cup
                 {Task(submissions + 1, "analyzeFood", foodItem,
                       AnalyzeUrl(foodItem), nutritionData)}
            /\ calls' = calls + 1
            /\ UNCHANGED <<display, foodItem, nutritionData, error, darkMode>>

\* analyzeFood, from its invocation to its first await (or its early return)
AnalyzeFood ==
    /\ AnalyzeEnabled
    /\ submissions < MaxSubmissions
    /\ submissions' = submissions + 1
    /\ IF IsEmptyQuery(foodItem)
       THEN /\ error' = EnterFoodItem
            /\ UNCHANGED <<display, foodItem, loading, nutritionData, darkMode, tasks, calls>>
       ELSE /\ loading' = TRUE
            /\ error' = NoError
            /\ tasks' = tasks \cup
                 {Task(submissions + 1, "analyzeFood", foodItem,
                       AnalyzeUrl(foodItem), nutritionData)}
            /\ calls' = calls + 1
            /\ UNCHANGED <<display, foodItem, nutritionData, darkMode>>

\* handleQuickAnalysis(food), from its invocation to its first await
HandleQuickAnalysis(food) ==
    /\ QuickEnabled
    /\ submissions < MaxSubmissions
    /\ submissions' = submissions + 1
    /\ error' = NoError
    /\ foodItem' = QuickText(food)
    /\ loading' = TRUE
    /\ tasks' = tasks \cup
         {Task(submissions + 1, "handleQuickAnalysis", food,
               QuickUrl(food), nutritionData)}
    /\ calls' = calls + 1
    /\ UNCHANGED <<display, nutritionData, darkMode>>

\* The backend answers the request of t with the response r.
Respond(t, r) ==
    /\ t \in tasks /\ t.pc = "fetch"
    /\ tasks' = (tasks \ {t}) \cup {[t EXCEPT !.pc = "resolved", !.response = r]}
    /\ UNCHANGED <<display, foodItem, loading, nutritionData, error, darkMode, submissions, calls>>

\* The transport fails: fetch() of t rejects with the reason err.
TransportFailure(t, err) ==
    /\ t \in tasks /\ t.pc = "fetch"
    /\ tasks' = (tasks \ {t}) \cup {[t EXCEPT !.pc = "rejected", !.err = err]}
    /\ UNCHANGED <<display, foodItem, loading, nutritionData, error, darkMode, submissions, calls>>

\* Mutant: no finally block, the busy flag stays set on a failure.
CatchFinally_NoFinally(t, err) ==
    /\ error' = MessageOrGeneric(err)
    /\ tasks' = tasks \ {t}
    /\ UNCHANGED <<display, foodItem, loading, nutritionData, darkMode, submissions, calls>>

\* Mutant: a failure clears the displayed result.
CatchFinally_ClearsResult(t, err) ==
    /\ error' = MessageOrGeneric(err)
    /\ nutritionData' = NullData
    /\ loading' = FALSE
    /\ tasks' = tasks \ {t}
    /\ UNCHANGED <<display, foodItem, darkMode, submissions, calls>>

\* Mutant: a failed call is issued again.
CatchFinally_Retries(t, err) ==
    /\ error' = MessageOrGeneric(err)
    /\ tasks' = (tasks \ {t}) \cup {[t EXCEPT !.pc = "fetch"]}
    /\ calls' = calls + 1
    /\ UNCHANGED <<display, foodItem, loading, nutritionData, darkMode, submissions>>

\* catch (err) { setError(err.message || ...) } finally { setLoading(false) },
\* ending the invocation t
CatchFinally(t, err) ==
    /\ error' = MessageOrGeneric(err)
    /\ loading' = FALSE
    /\ tasks' = tasks \ {t}
    /\ UNCHANGED <<display, foodItem, nutritionData, darkMode, submissions, calls>>

\* Mutant: the new result is not stored.
StoreFinally_NoStore(t, data) ==
    /\ loading' = FALSE
    /\ tasks' = tasks \ {t}
    /\ UNCHANGED <<display, foodItem, nutritionData, error, darkMode, submissions, calls>>

\* setNutritionData(data) and finally { setLoading(false) }, ending t
StoreFinally(t, data) ==
    /\ nutritionData' = data
    /\ loading' = FALSE
    /\ tasks' = tasks \ {t}
    /\ UNCHANGED <<display, foodItem, error, darkMode, submissions, calls>>

\* The continuation of t after a rejected fetch()
FetchRejected(t) ==
    /\ t \in tasks /\ t.pc = "rejected"
    /\ CatchFinally(t, t.err)

\* Mutant: response.ok is not tested.
FetchResolved_IgnoresStatus(t) ==
    /\ t \in tasks /\ t.pc = "resolved"
    /\ tasks' = (tasks \ {t}) \cup {[t EXCEPT !.pc = "json"]}
    /\ UNCHANGED <<display, foodItem, loading, nutritionData, error, darkMode, submissions, calls>>

\* The continuation of t after a resolved fetch(): a non-ok status throws, an
\* ok status goes on to await response.json()
FetchResolved(t) ==
    /\ t \in tasks /\ t.pc = "resolved"
    /\ IF ~t.response.ok
       THEN CatchFinally(t, FailedToAnalyze(t.food))
       ELSE /\ tasks' = (tasks \ {t}) \cup {[t EXCEPT !.pc = "json"]}
            /\ UNCHANGED <<display, foodItem, loading, nutritionData, error, darkMode,
                           submissions, calls>>

\* Mutant: a message carried by a malformed body is shown in place of the
\* fixed text.
JsonSettled_SurfacesDetail(t) ==
    /\ t \in tasks /\ t.pc = "json"
    /\ LET data == t.response.body
       IN  IF data.json = "unparsable"
           THEN CatchFinally(t, JsonRejection)
           ELSE IF InvalidShape(data)
           THEN CatchFinally(t, IF data.detail # "" THEN Message(data.detail, <<>>)
                                ELSE InvalidResponse)
           ELSE StoreFinally(t, data)

\* The continuation of t after response.json(): it rejects when the body does
\* not parse; a parsed body of the wrong shape throws; a well-formed one is
\* stored
JsonSettled(t) ==
    /\ t \in tasks /\ t.pc = "json"
    /\ LET data == t.response.body
       IN  IF data.json = "unparsable"
           THEN CatchFinally(t, JsonRejection)
           ELSE IF InvalidShape(data)
           THEN CatchFinally(t, InvalidResponse)
           ELSE StoreFinally(t, data)

\* ---------------------------------------------------------------- rendering
\* The score card is rendered for the health score handed to the render.
RenderScore ==
    /\ display.input.field = "health_score"
    /\ display.card = NoCard
    /\ display' = [display EXCEPT !.card = ScoreCard(display.input.number)]
    /\ UNCHANGED <<foodItem, loading, nutritionData, error, darkMode, tasks,
                   submissions, calls>>

\* A row of the breakdown table is rendered for the amount handed to the
\* render.
RenderNutrient ==
    /\ display.input.field = "value"
    /\ display.row = NoRow
    /\ display' = [display EXCEPT !.row = NutrientRow(display.input.number)]
    /\ UNCHANGED <<foodItem, loading, nutritionData, error, darkMode, tasks,
                   submissions, calls>>

\* The component holds a result whose health score, or one of whose nutrient
\* amounts, is any number within the bounds.
DisplayInit ==
    /\ foodItem = <<>>
    /\ loading = FALSE
    /\ nutritionData = Result(1)
    /\ error = NoError
    /\ darkMode = FALSE
    /\ tasks = {}
    /\ submissions = 0
    /\ calls = 0
    /\ \E input \in ScoreInputs \cup AmountInputs :
          display = [input |-> input, card |-> NoCard, row |-> NoRow]

DisplayNext ==
    \/ RenderScore
    \/ RenderNutrient

\* The display helpers applied to every score and amount within the bounds.
DisplaySpec == DisplayInit /\ [][DisplayNext]_vars

\* ----------------------------------------------------------- specification
\* The backend call of a pending submission settles and its continuations run.
Settle ==
    \E t \in tasks :
        \/ \E r \in Responses : Respond(t, r)
        \/ \E err \in FetchRejections : TransportFailure(t, err)
        \/ FetchRejected(t)
        \/ FetchResolved(t)
        \/ JsonSettled(t)

Next ==
    \/ \E s \in Inputs : SetFoodItem(s)
    \/ ToggleDarkMode
    \/ AnalyzeFood
    \/ \E food \in quickSuggestions : HandleQuickAnalysis(food)
    \/ \E t \in tasks, r \in Responses : Respond(t, r)
    \/ \E t \in tasks, err \in FetchRejections : TransportFailure(t, err)
    \/ \E t \in tasks : FetchRejected(t)
    \/ \E t \in tasks : FetchResolved(t)
    \/ \E t \in tasks : JsonSettled(t)

Spec == Init /\ [][Next]_vars

FairSpec == Spec /\ WF_vars(Settle)

\* ------------------------------------------------------- claim vocabulary
\* Every character of s is white space (the empty string included).
IsBlank(s) == \A i \in 1..Len(s) : s[i] \in WhiteSpace

\* q is raw without its leading and trailing white space.
IsTrimOf(q, raw) ==
    /\ q # <<>> => Head(q) \notin WhiteSpace /\ q[Len(q)] \notin WhiteSpace
    /\ \E i \in 0..Len(raw) :
          /\ i + Len(q) <= Len(raw)
          /\ SubSeq(raw, i + 1, i + Len(q)) = q
          /\ \A k \in (1..i) \cup ((i + Len(q) + 1)..Len(raw)) : raw[k] \in WhiteSpace

\* What the receiver of a request reads out of a percent-escaped path item.
UnescapeChar(a, b) ==
    CASE a = "2" /\ b = "0" -> " "
      [] a = "2" /\ b = "F" -> "/"
      [] a = "2" /\ b = "5" -> "%"
      [] OTHER -> "?"

RECURSIVE PercentDecode(_)
PercentDecode(u) ==
    IF u = <<>> THEN <<>>
    ELSE IF Head(u) = "%" /\ Len(u) >= 3
    THEN <<UnescapeChar(u[2], u[3])>> \o PercentDecode(SubSeq(u, 4, Len(u)))
    ELSE <<Head(u)>> \o PercentDecode(Tail(u))

\* The body is a parsed object that carries a nutrient breakdown.
HasBreakdown(b) == b.json = "object" /\ b.detailed_breakdown = "object"

\* In this step the invocation t ends.
Terminates(t) == \A u \in tasks' : u.id # t.id

\* In this step a continuation of the invocation t runs or its call settles.
Advances(t) == t \in tasks /\ t \notin tasks'

\* In this step analyzeFood is invoked.
AnalyzeFoodInvoked ==
    /\ submissions' = submissions + 1
    /\ \A u \in tasks' \ tasks : u.handler = "analyzeFood"

\* ------------------------------------------------------------------ claims
\* C1: whenever analyzeFood is invoked with an input field that is empty or
\* holds only white space, the step sets the validation message, makes no
\* call to the backend (no fetch() is counted, no invocation is suspended)
\* and leaves the busy flag false.
C1_BlankInputRejected ==
    [][(AnalyzeFoodInvoked /\ IsBlank(foodItem)) =>
          /\ error' = EnterFoodItem
          /\ calls' = calls
          /\ tasks' = tasks
          /\ ~loading /\ ~loading']_vars

\* A white-space-only input was submitted and rejected without any call.
C1_Witness ==
    /\ foodItem # <<>> /\ IsBlank(foodItem)
    /\ error = EnterFoodItem
    /\ submissions > 0 /\ calls = 0 /\ ~loading

\* C2: once the busy flag is set it is eventually cleared (given that the
\* backend call settles); the step that clears it is the step in which the
\* submission ends, and no state without a pending submission is busy.
C2_BusyAlwaysCleared ==
    /\ [](loading => <>(~loading))
    /\ [][(loading /\ ~loading') => tasks' = {}]_vars
    /\ [](tasks = {} => ~loading)

\* A submission that made a call has ended with a failure and is not busy.
C2_Witness ==
    /\ calls > 0 /\ tasks = {} /\ ~loading
    /\ error # NoError /\ error # EnterFoodItem

\* C3: a submission that fails (empty input, rejected fetch, non-ok status,
\* body that does not parse or has no breakdown) ends with the result it
\* was invoked with, an error message and the busy flag false.
C3_FailureKeepsResult ==
    [][/\ (AnalyzeFoodInvoked /\ tasks' = tasks) =>
            (nutritionData' = nutritionData /\ error' # NoError /\ ~loading')
       /\ \A t \in tasks :
            (/\ Advances(t) /\ Terminates(t)
             /\ ~(t.pc = "json" /\ HasBreakdown(t.response.body)))
            => (nutritionData' = t.before /\ error' # NoError /\ ~loading')]_vars

\* A stale result is displayed together with the error of a later failure.
C3_Witness ==
    /\ nutritionData \in Results /\ error # NoError
    /\ ~loading /\ tasks = {} /\ calls >= 2

\* C4: when the continuation after response.json() finds an ok response whose
\* body carries a breakdown, the submission ends with the busy flag false,
\* no error and that body as the displayed result.
C4_SuccessReplacesResult ==
    [][\A t \in tasks :
          (Advances(t) /\ t.pc = "json" /\ HasBreakdown(t.response.body))
          => /\ Terminates(t)
             /\ nutritionData' = t.response.body
             /\ error' = NoError
             /\ ~loading']_vars

\* A second analysis has succeeded and is displayed without an error.
C4_Witness ==
    /\ nutritionData = Result(NumResults) /\ error = NoError
    /\ ~loading /\ tasks = {} /\ calls >= 2

\* C5: at most one invocation is pending at any time, and no submission
\* handler is invoked while the busy flag is set.
C5_OneRequestInFlight ==
    /\ [](Cardinality(tasks) <= 1)
    /\ [][loading => submissions' = submissions]_vars

\* A request is in flight while further submissions are still allowed by
\* the bound and no result hides the quick-suggestion buttons.
C5_Witness ==
    /\ loading /\ Cardinality(tasks) = 1
    /\ submissions < MaxSubmissions /\ nutritionData = NullData

\* C6: the continuation after a fetch() that resolved with a non-ok status
\* ends the submission, whatever the body: an error message is set, the
\* result is the one the submission was invoked with, the busy flag is false.
C6_NonOkIsRequestFailure ==
    [][\A t \in tasks :
          (Advances(t) /\ t.pc = "resolved" /\ ~t.response.ok)
          => /\ Terminates(t)
             /\ error' = FailedToAnalyze(t.food)
             /\ nutritionData' = t.before
             /\ ~loading']_vars

\* A non-ok response has been turned into the templated failure message.
C6_Witness ==
    /\ error.text = FailedToAnalyze(<<>>).text
    /\ ~loading /\ tasks = {} /\ calls > 0

\* C7: the continuation after response.json() of an ok response whose body
\* has no breakdown ends the submission without storing the body: the result
\* is the one the submission was invoked with, and a parsed body gives the
\* "Invalid response from server" message.
C7_MissingBreakdownRejected ==
    [][\A t \in tasks :
          (Advances(t) /\ t.pc = "json" /\ ~HasBreakdown(t.response.body))
          => /\ Terminates(t)
             /\ nutritionData' = t.before
             /\ error' # NoError
             /\ t.response.body.json # "unparsable" => error' = InvalidResponse
             /\ ~loading']_vars

\* A response without breakdown was rejected while an earlier result stays.
C7_Witness ==
    /\ error = InvalidResponse /\ nutritionData \in Results
    /\ ~loading /\ tasks = {}

\* C8: the target of every request of analyzeFood is "/api/analyze/" followed
\* by an escaped item that holds no raw space or slash and decodes to the
\* input without its surrounding white space; it is never the escaped raw
\* input when the input has surrounding white space.
C8_TargetIsEscapedTrimmedInput ==
    \A t \in tasks :
        t.handler = "analyzeFood" =>
            /\ t.url.base = "/api/analyze/"
            /\ \A k \in 1..Len(t.url.item) : t.url.item[k] \notin {" ", "/"}
            /\ PercentDecode(t.url.item) # <<>>
            /\ IsTrimOf(PercentDecode(t.url.item), t.food)
            /\ ~IsTrimOf(t.food, t.food) => t.url.item # EncodeURIComponent(t.food)

\* A request is pending for an input with leading white space and a slash.
C8_Witness ==
    \E t \in tasks : t.handler = "analyzeFood" /\ t.food = <<" ", "/">>

\* C9 as stated: while a quick-select request is pending, the input field
\* shows exactly the query that was sent.
C9_FieldEqualsSentQuery ==
    \A t \in tasks :
        t.handler = "handleQuickAnalysis" => foodItem = PercentDecode(t.url.item)

\* C9 as amended: while a quick-select request is pending, the input field
\* shows the lower-cased form of the query that was sent.
C9_FieldIsLowerCasedSentQuery ==
    \A t \in tasks :
        t.handler = "handleQuickAnalysis" =>
            /\ Len(foodItem) = Len(PercentDecode(t.url.item))
            /\ \A k \in 1..Len(foodItem) :
                  foodItem[k] = LowerChar(PercentDecode(t.url.item)[k])

\* The request for "Sweet Potato" is pending and the field shows
\* "sweet potato".
C9_Witness ==
    \E t \in tasks :
        /\ t.handler = "handleQuickAnalysis"
        /\ t.url.item = <<"S", "w", "e", "e", "t", "%", "2", "0",
                          "P", "o", "t", "a", "t", "o">>
        /\ foodItem = <<"s", "w", "e", "e", "t", " ", "p", "o", "t", "a", "t", "o">>

\* C10: the request of a quick-select is the request analyzeFood dispatches
\* for the same query text (the selected food, or the text shown for it).
C10_QuickRequestSameAsAnalyze ==
    \A t \in tasks :
        t.handler = "handleQuickAnalysis" =>
            t.url \in {AnalyzeUrl(t.food), AnalyzeUrl(foodItem)}

\* C11 as stated: after a rejected fetch or a non-ok status the message is
\* the one the response carries when it carries one, and otherwise the
\* templated message that names the queried food.
C11_ServerMessagePreferred ==
    [][\A t \in tasks :
          (Advances(t) /\ (t.pc = "rejected" \/ (t.pc = "resolved" /\ ~t.response.ok)))
          => error' = IF t.pc = "resolved" /\ t.response.body.detail # ""
                      THEN Message(t.response.body.detail, <<>>)
                      ELSE FailedToAnalyze(t.food)]_vars

\* C11 as amended: after a non-ok status the message is always the templated
\* one naming the text the handler was invoked with (the input field, or the
\* selected food), whatever the body carries; after a rejected fetch it is
\* the message of the rejection, or the fixed "Failed to analyze food. Please
\* try again." when the rejection has none.
C11_TemplatedOrThrownMessage ==
    [][\A t \in tasks :
          Advances(t) =>
            /\ (t.pc = "resolved" /\ ~t.response.ok) =>
                  /\ error'.text = "Failed to analyze ${item}. Please try again."
                  /\ error'.item = t.food
                  /\ t.handler = "analyzeFood" => t.food = foodItem
                  /\ t.handler = "handleQuickAnalysis" => t.food \in quickSuggestions
            /\ t.pc = "rejected" =>
                  error' = IF t.err.text # "" THEN t.err
                           ELSE Message("Failed to analyze food. Please try again.", <<>>)]_vars

\* A rejection without a message of its own has produced the fixed text.
C11_Witness ==
    /\ error = FailedGeneric /\ ~loading /\ tasks = {} /\ calls > 0

C13_OneCallPerValidSubmission ==
    /\ [](calls <= submissions /\ Cardinality(tasks) <= calls)
    /\ [][/\ calls' \in {calls, calls + 1}
          /\ calls' = calls + 1 <=>
                /\ submissions' = submissions + 1
                /\ (foodItem' = foodItem => ~IsBlank(foodItem))]_vars

\* Three submissions, one of which passed validation and then failed,
\* made one call.
C13_Witness ==
    /\ submissions = 3 /\ calls = 1 /\ tasks = {}
    /\ error # NoError /\ error # EnterFoodItem

\* C14 as stated: while the busy flag is set the input field can be edited
\* and the theme can be toggled.
C14_EditAndToggleWhileBusy ==
    loading =>
        /\ ENABLED (\E s \in Inputs : SetFoodItem(s))
        /\ ENABLED ToggleDarkMode

\* C14 as amended: while the busy flag is set the theme can be toggled, but
\* the input field is disabled and its text does not change.
C14_ToggleButNoEditWhileBusy ==
    /\ [](loading =>
            /\ ENABLED ToggleDarkMode
            /\ ~ENABLED (\E s \in Inputs : SetFoodItem(s)))
    /\ [][loading => foodItem' = foodItem]_vars

\* A request is pending in the dark theme.
C14_Witness ==
    /\ loading /\ darkMode /\ foodItem # <<>>
    /\ \E t \in tasks : t.pc = "fetch"

\* The tier of a score (in tenths) and what each selector shows for a tier.
ScoreTier(score) ==
    CASE score >= 800 -> "excellent"
      [] score >= 600 /\ score < 800 -> "good"
      [] score >= 400 /\ score < 600 -> "fair"
      [] score < 400 -> "poor"

TierLook(tier) ==
    CASE tier = "excellent" ->
           <<"text-green-500", "green circle", "Excellent Choice", "bg-green-500">>
      [] tier = "good" ->
           <<"text-yellow-500", "yellow circle", "Good Option", "bg-yellow-500">>
      [] tier = "fair" ->
           <<"text-orange-500", "orange circle", "Fair Choice", "bg-orange-500">>
      [] tier = "poor" ->
           <<"text-red-500", "red circle", "Consider Alternatives", "bg-red-500">>

\* C15: every rendered score card shows, in its color, emoji, description and
\* progress bar, the look of the one tier of its score: excellent from 80,
\* good from 60 to below 80, fair from 40 to below 60, poor below 40.
C15_SelectorsAgreeOnTier ==
    display.card # NoCard =>
        <<display.card.color, display.card.emoji, display.card.description,
          display.card.bar>> = TierLook(ScoreTier(display.card.score))

\* The card of the score 80.0 is rendered as excellent.
C15_Witness ==
    /\ display.card.score = 800
    /\ display.card.description = "Excellent Choice"
    /\ display.card.bar = "bg-green-500"

\* The status of an amount (in tenths) and the badge shown for it.
NutrientStatus(amount) ==
    CASE amount > 100 -> "High"
      [] amount > 50 /\ amount <= 100 -> "Good"
      [] amount <= 50 -> "Low"

StatusBadge(status) ==
    CASE status = "High" -> "bg-green-100 text-green-800"
      [] status = "Good" -> "bg-yellow-100 text-yellow-800"
      [] status = "Low" -> "bg-blue-100 text-blue-800"

\* C16: every rendered nutrient row shows the status of its amount, high
\* above 10, good above 5 up to 10, low up to 5, in its label and in the
\* color of its badge.
C16_StatusByThresholds ==
    display.row # NoRow =>
        /\ display.row.label = NutrientStatus(display.row.value)
        /\ display.row.badge = StatusBadge(NutrientStatus(display.row.value))

\* The row of the amount 10.0 is rendered as good, not high.
C16_Witness ==
    /\ display.row.value = 100
    /\ display.row.label = "Good"
    /\ display.row.badge = "bg-yellow-100 text-yellow-800"

\* An upper-case letter of the predefined foods with its lower-case form.
CasePairs == {<<"A", "a">>, <<"B", "b">>, <<"P", "p">>, <<"Q", "q">>, <<"S", "s">>}

\* shown is listed with every upper-case letter replaced by its lower-case
\* form.
IsLowerCased(shown, listed) ==
    /\ Len(shown) = Len(listed)
    /\ \A k \in 1..Len(listed) :
          /\ \A pair \in CasePairs : shown[k] # pair[1]
          /\ shown[k] = listed[k] \/ <<listed[k], shown[k]>> \in CasePairs

\* C17: from the step that dispatches the request of a quick-select, and as
\* long as that request is pending, the input field shows the selected food
\* in lower case ("avocado" for "Avocado").
C17_FieldLowerCasedAtDispatch ==
    \A t \in tasks :
        t.handler = "handleQuickAnalysis" =>
            /\ t.food \in quickSuggestions
            /\ IsLowerCased(foodItem, t.food)
            /\ t.food = <<"A", "v", "o", "c", "a", "d", "o">> =>
                  foodItem = <<"a", "v", "o", "c", "a", "d", "o">>

\* The request for "Avocado" has just been dispatched and the field shows
\* "avocado".
C17_Witness ==
    \E t \in tasks :
        /\ t.handler = "handleQuickAnalysis" /\ t.pc = "fetch"
        /\ t.food = <<"A", "v", "o", "c", "a", "d", "o">>
        /\ foodItem = <<"a", "v", "o", "c", "a", "d", "o">>

\* C18 as stated: when an error and a result are both present, the error is
\* shown and the result is not.
C18_ErrorShownInsteadOfResult ==
    (error # NoError /\ nutritionData # NullData) =>
        /\ \E k \in 1..Len(View) : View[k] = "error"
        /\ \A k \in 1..Len(View) : View[k] # "results"

\* C18 as amended: when an error and a result are both present, both are
\* rendered, the error box before (above) the results section.
C18_ErrorShownAboveResult ==
    (error # NoError /\ nutritionData # NullData) => View = <<"error", "results">>

\* A stale result and the error of a failed call are rendered together.
C18_Witness ==
    /\ nutritionData \in Results /\ error = Message("Failed to fetch", <<>>)
    /\ View = <<"error", "results">>

\* C19: the displayed result is always null or a parsed object that carries
\* a breakdown.
C19_ResultHasBreakdown ==
    nutritionData = NullData \/ HasBreakdown(nutritionData)

\* A result is displayed while an ok response without a breakdown waits to
\* be handled.
C19_Witness ==
    /\ nutritionData \in Results
    /\ \E t \in tasks :
          t.pc = "json" /\ t.response.body.json = "object"
          /\ ~HasBreakdown(t.response.body)

\* C20: while the busy flag is set there is no error message.
C20_BusyImpliesNoError == loading => error = NoError

\* A second call is pending after the first one failed, and the error of
\* the first is gone.
C20_Witness ==
    /\ loading /\ error = NoError
    /\ calls = 2 /\ nutritionData = NullData

\* C21: a displayed result is never set back to null, and while a result is
\* displayed no step invokes handleQuickAnalysis.
C21_ResultStaysAndQuickSelectGone ==
    [][nutritionData # NullData =>
          /\ nutritionData' # NullData
          /\ \A u \in tasks' \ tasks :
                u.pc = "fetch" => u.handler # "handleQuickAnalysis"]_vars

\* A result is displayed and a further submission is possible, yet the
\* quick-suggestion buttons are not rendered.
C21_Witness ==
    /\ nutritionData \in Results /\ ~loading /\ tasks = {}
    /\ submissions < MaxSubmissions
    /\ AnalyzeEnabled /\ ~QuickEnabled
    /\ \A k \in 1..Len(View) : View[k] # "suggestions"

====
